---------------------------- MODULE Spec2Model ----------------------------
(***************************************************************************)
(* A model of the symbol extraction and completion engine:                 *)
(*   - readDefine, the scanner of a #define directive (value, comments);   *)
(*   - CompletionRepository, the per-file tables and their include graph;  *)
(*   - getCompletionListFromPosition / getMethodItems, method completion;  *)
(*   - provideSignatureHelp, the backward scan for the call at the cursor. *)
(* Text is modelled as sequences of one-character strings, with 0-based    *)
(* indices as in the source.                                               *)
(***************************************************************************)
EXTENDS Integers, Sequences, FiniteSets, TLC

VARIABLES
    parser,       \* readDefine: the Parser object (lines, lineNb, fileItems)
    define,       \* readDefine: the arguments of the call and what it did
    disk,         \* the include directives of each file as stored on disk
    completions,  \* CompletionRepository.completions: uri -> FileCompletions
    event,        \* the last open or change event handled, and how it ended
    query,        \* the last get_all_completions call and what it returned
    glob,         \* parse_sm_api: the state of the glob call and its callback
    allItems,     \* itemsRepo.getAllItems(document.uri): the visible items
    request,      \* the last completion request and the list it returned
    sig,          \* provideSignatureHelp: the line, the cursor, the answer
    importer,     \* resolve_import: the FileCompletions, the files, the call
    provider      \* a call of a function of spDefinitionProvider

defineVars == <<parser, define>>
repoVars == <<disk, completions, event, query, glob>>
itemVars == <<allItems, request>>
helperVars == <<importer, provider>>
vars ==
    <<parser, define, disk, completions, event, query, glob, allItems, request,
      sig, importer, provider>>

\* A Map with no entry.  Maps are held as functions from their keys.
EmptyMap == << >>

\* Map.set(key, v) and Map.has(key).
MapSet(m, key, v) == [k \in DOMAIN m \cup {key} |-> IF k = key THEN v ELSE m[k]]
MapHas(m, key) == key \in DOMAIN m

\* The parts of the program a specification leaves alone.
NoDefine == [phase |-> "none"]
NoParser == [lines |-> <<>>, lineNb |-> 0, fileItems |-> EmptyMap]
NoEvent == [op |-> "none"]
NoQuery == [op |-> "none"]
NoRequest == [op |-> "none"]
DefineIdle == parser = NoParser /\ define = NoDefine
NoSig == [op |-> "none"]
ItemsIdle == allItems = <<>> /\ request = NoRequest
SigIdle == sig = NoSig
NoImporter == [op |-> "none"]
NoProvider == [op |-> "none"]
HelpersIdle == importer = NoImporter /\ provider = NoProvider
RepoIdle ==
    /\ disk = EmptyMap
    /\ completions = EmptyMap
    /\ event = NoEvent
    /\ query = NoQuery
    /\ glob = "none"

(***************************************************************************)
(* Text helpers (JavaScript string operations).                            *)
(***************************************************************************)
DQ == "\""
SQ == "'"
SP == " "

Min(a, b) == IF a < b THEN a ELSE b
Max(a, b) == IF a > b THEN a ELSE b

\* All strings over alphabet S of length at most n.
Str(S, n) == UNION {[1..k -> S] : k \in 0..n}

\* s[i], 0-based; "undefined" when i is not an index of s.
At(s, i) == IF i >= 0 /\ i < Len(s) THEN s[i + 1] ELSE "undefined"

\* s.slice(a, b) and s.slice(a), for 0 <= a.
Slice(s, a, b) == SubSeq(s, a + 1, Min(b, Len(s)))
SliceFrom(s, a) == SubSeq(s, a + 1, Len(s))

\* s.trimEnd(), s.trim(): white space is the blank.
RECURSIVE TrimEnd(_)
TrimEnd(s) ==
    IF s # <<>> /\ s[Len(s)] = SP THEN TrimEnd(SubSeq(s, 1, Len(s) - 1)) ELSE s
RECURSIVE TrimStart(_)
TrimStart(s) == IF s # <<>> /\ s[1] = SP THEN TrimStart(Tail(s)) ELSE s
Trim(s) == TrimStart(TrimEnd(s))

IsPrefix(p, s) == Len(p) <= Len(s) /\ SubSeq(s, 1, Len(p)) = p

\* The 0-based indices at which the two characters a b occur in s.
Occurrences(s, a, b) == {k \in 0..(Len(s) - 2) : s[k + 1] = a /\ s[k + 2] = b}

SetMax(S) == CHOOSE x \in S : \A y \in S : y <= x
SetMin(S) == CHOOSE x \in S : \A y \in S : x <= y


(***************************************************************************)
(* readDefine (Parser/readDefine).                                         *)
(*                                                                         *)
(* A loop state holds the locals of readDefine and the two Parser fields   *)
(* the loop changes.  ctl says how the last iteration left the loop body:  *)
(* "continue" (the loop condition is tested again), "break" (line 48) or   *)
(* "return" (line 65: parser.lines.shift() gave undefined).                *)
(***************************************************************************)
IterCap == 10000

InQuote(st) == st.openSQuote \/ st.openDQuote

\* Lines 19-24 and 25-30: a quote character toggles its flag unless the
\* other quote or a block comment is open.
IsDQuoteToggle(st) ==
    At(st.line, st.i) = DQ /\ ~st.openSQuote /\ ~st.blockComment
IsSQuoteToggle(st) ==
    At(st.line, st.i) = SQ /\ ~st.openDQuote /\ ~st.blockComment

\* Lines 33-38: "/*" outside quotes, not at the last column.
IsBlockOpen(st) ==
    /\ st.i < Len(st.line) - 1
    /\ At(st.line, st.i) = "/"
    /\ At(st.line, st.i + 1) = "*"
    /\ ~InQuote(st)

\* IsLineComment without the test for an open quote.
IsLineCommentInQuote(st) ==
    /\ st.i < Len(st.line) - 1
    /\ At(st.line, st.i) = "/"
    /\ At(st.line, st.i + 1) = "/"

\* Lines 33, 42-46: "//" outside quotes, not at the last column.
IsLineComment(st) ==
    /\ st.i < Len(st.line) - 1
    /\ At(st.line, st.i) = "/"
    /\ At(st.line, st.i + 1) = "/"
    /\ ~InQuote(st)

\* LineCommentText that keeps the second "/" of the mark.
LineCommentTextFromMark(st) == SliceFrom(st.line, st.i + 1)

\* Line 47: the description a line comment gives.
LineCommentText(st) == SliceFrom(st.line, st.i + 2)

\* Line 54: line.slice(i).match(/(.*)\*\//).  The greedy (.*) ends at the
\* last "*/" of the slice; the result is the length of group 1, or -1 when
\* there is no match.
EndComMatch(st) ==
    LET occ == Occurrences(SliceFrom(st.line, st.i), "*", "/")
    IN  IF occ = {} THEN -1 ELSE SetMax(occ)

\* PullLine that goes on with an empty line and leaves parser.lines as it
\* is.
PullLineNoShift(st) ==
    [st EXCEPT !.description = @ \o TrimEnd(SliceFrom(st.line, st.i)),
               !.lineNb = @ + 1, !.line = <<>>, !.i = 0]

\* Lines 61-68: no terminator on this line; the rest goes to the
\* description and the next line is pulled from parser.lines.
PullLine(st) ==
    LET d == st.description \o TrimEnd(SliceFrom(st.line, st.i))
    IN  IF st.lines = <<>>
        THEN [st EXCEPT !.description = d, !.lineNb = @ + 1,
                        !.line = <<"undefined">>, !.ctl = "return"]
        ELSE [st EXCEPT !.description = d, !.lineNb = @ + 1,
                        !.line = Head(st.lines), !.lines = Tail(st.lines),
                        !.i = 0, !.ctl = "continue"]

\* Lines 18-69: one iteration of the loop body.
Body(s0) ==
    LET st == [s0 EXCEPT !.iter = @ + 1]
        c  == At(st.line, st.i)
    IN  IF IsDQuoteToggle(st)
        THEN [st EXCEPT !.openDQuote = ~@, !.value = Append(@, c), !.i = @ + 1]
        ELSE IF IsSQuoteToggle(st)
        THEN [st EXCEPT !.openSQuote = ~@, !.value = Append(@, c), !.i = @ + 1]
        ELSE IF ~st.blockComment
        THEN IF IsBlockOpen(st)
             THEN [st EXCEPT !.blockComment = TRUE, !.i = @ + 2]
             ELSE IF IsLineComment(st)
             THEN [st EXCEPT !.description = LineCommentText(st),
                             !.ctl = "break"]
             ELSE [st EXCEPT !.value = Append(@, c), !.i = @ + 1]
        ELSE LET m == EndComMatch(st)
             IN  IF m >= 0
                 THEN [st EXCEPT
                         !.description =
                             @ \o TrimEnd(Slice(st.line, st.i, st.i + m)),
                         !.blockComment = FALSE,
                         !.i = @ + m + 2]
                 ELSE PullLine(st)

\* Line 17: the loop condition.
LoopCond(st) == st.i < Len(st.line) /\ st.iter < IterCap

\* Lines 17-70: the loop, as the sequence of the loop states it goes
\* through, from the state before the first test of the condition to the
\* state in which the loop is left.
RECURSIVE LoopTrace(_)
LoopTrace(tr) ==
    LET st == tr[Len(tr)]
    IN  IF st.ctl = "continue" /\ LoopCond(st)
        THEN LoopTrace(Append(tr, Body(st)))
        ELSE tr

\* Lines 10-16: the locals at the start of the call.
StartState(p, match, line) ==
    [line |-> line, i |-> Len(match.text), iter |-> 0,
     value |-> <<>>, description |-> <<>>,
     openDQuote |-> FALSE, openSQuote |-> FALSE, blockComment |-> FALSE,
     lines |-> p.lines, lineNb |-> p.lineNb, ctl |-> "continue"]

\* positiveRange(lineNb, start, end) of Parser/utils: a one-line range with
\* negative numbers raised to 0.
positiveRange(lineNb, start, end) ==
    [line |-> Max(lineNb, 0), start |-> Max(start, 0), end |-> Max(end, 0)]

\* new DefineItem(name, value, description, ...): the item keeps what it is
\* given.  (filePath, IsBuiltIn and the name's range do not depend on the
\* scan and are left out.)
DefineItem(name, value, description, fullRange) ==
    [name |-> name, value |-> value, description |-> description,
     fullRange |-> fullRange]

\* Lines 72-84 after the loop, or nothing after the return of line 65.
readDefine(p, match, line) ==
    LET tr  == LoopTrace(<<StartState(p, match, line)>>)
        fin == tr[Len(tr)]
        p1  == [p EXCEPT !.lines = fin.lines, !.lineNb = fin.lineNb]
    IN  IF fin.ctl = "return"
        THEN [parser |-> p1, trace |-> tr, stored |-> FALSE]
        ELSE [parser |->
                [p1 EXCEPT !.fileItems =
                    MapSet(@, match.name,
                           DefineItem(match.name, fin.value, fin.description,
                                      positiveRange(fin.lineNb, 0,
                                                    Len(fin.line))))],
              trace |-> tr, stored |-> TRUE]


(***************************************************************************)
(* The inputs of readDefine.                                               *)
(*                                                                         *)
(* The line starts with match[0], the text matched by the parser's regular *)
(* expression for "#define NAME" (match[1] is NAME); the scan starts right *)
(* behind it.  SpecDefine covers the directives that are the last line of  *)
(* the input: every text of at most MaxLineLen characters behind the       *)
(* match.  SpecDefineLines covers the directives with lines left in        *)
(* parser.lines: a text of at most MaxHeadLen characters that holds a      *)
(* block comment opener, and at most MaxLines following lines.             *)
(***************************************************************************)
MaxLineLen == 5
MaxHeadLen == 3
MaxLines == 3

Chars == {DQ, SQ, "/", "*", SP, "x"}

MatchText == <<"#", "N">>
DefineName == "FOO"
TheMatch == [text |-> MatchText, name |-> DefineName]

\* The lines that may follow the directive: an empty line, text, a
\* terminator alone, a terminator between text, a terminator and a new
\* opener.
ContLines ==
    { <<>>, <<"x">>, <<"*", "/">>, <<"x", "*", "/", "x">>,
      <<"*", "/", "/", "*">> }

LineLists == UNION {[1..k -> ContLines] : k \in 0..MaxLines}

\* An item an earlier directive of the file stored under the same name.
OldItem == DefineItem(DefineName, <<"o">>, <<>>, positiveRange(1, 0, 9))
NoItems == EmptyMap

\* The parser before the call: at the top of a fresh file, or further down
\* with the name already defined.
ParserStarts ==
    { [lineNb |-> 0, fileItems |-> NoItems],
      [lineNb |-> 3, fileItems |-> MapSet(NoItems, DefineName, OldItem)] }

DefineStart(ps, rest, ls) ==
    /\ RepoIdle
    /\ ItemsIdle
    /\ SigIdle
    /\ HelpersIdle
    /\ parser = [lines |-> ls, lineNb |-> ps.lineNb,
                 fileItems |-> ps.fileItems]
    /\ define = [phase |-> "ready", match |-> TheMatch,
                 line |-> MatchText \o rest]

InitDefine ==
    \E ps \in ParserStarts, rest \in Str(Chars, MaxLineLen) :
        DefineStart(ps, rest, <<>>)

InitDefineLines ==
    \E ps \in ParserStarts, rest \in Str(Chars, MaxHeadLen), ls \in LineLists :
        /\ Occurrences(rest, "/", "*") # {}
        /\ DefineStart(ps, rest, ls)

\* The parser calls readDefine(this, match, line) on a line its regular
\* expression matched.
ReadDefine ==
    /\ define.phase = "ready"
    /\ LET r == readDefine(parser, define.match, define.line)
       IN  /\ parser' = r.parser
           /\ define' = [phase |-> "done", match |-> define.match,
                         line |-> define.line, before |-> parser,
                         trace |-> r.trace, stored |-> r.stored]
    /\ UNCHANGED <<repoVars, itemVars, sig, helperVars>>

NextDefine == ReadDefine

SpecDefine == InitDefine /\ [][NextDefine]_vars

SpecDefineLines == InitDefineLines /\ [][NextDefine]_vars


(***************************************************************************)
(* Properties of readDefine.                                               *)
(***************************************************************************)
DefineDone == define.phase = "done"

\* The text behind the match, the last loop state, the stored item.
Rest == SliceFrom(define.line, Len(define.match.text))
Fin == define.trace[Len(define.trace)]
StoredItem == parser.fileItems[define.match.name]

HasQuote(s) == \E k \in 1..Len(s) : s[k] \in {DQ, SQ}
HasSlash(s) == \E k \in 1..Len(s) : s[k] = "/"

\* The first quoted literal of the text s, when no "/" precedes it: from
\* its opening quote to the matching quote, or to the end of s.
FirstQuote(s) == SetMin({k \in 0..(Len(s) - 1) : At(s, k) \in {DQ, SQ}})
HasFirstLiteral(s) == HasQuote(s) /\ ~HasSlash(Slice(s, 0, FirstQuote(s)))
LiteralEnd(s) ==
    LET a == FirstQuote(s)
        closers == {k \in (a + 1)..(Len(s) - 1) : At(s, k) = At(s, a)}
    IN  IF closers = {} THEN Len(s) ELSE SetMin(closers) + 1
FirstLiteral(s) == Slice(s, FirstQuote(s), LiteralEnd(s))
HasCommentMark(s) ==
    Occurrences(s, "/", "/") # {} \/ Occurrences(s, "/", "*") # {}

\* C4: a "//" or "/*" met while a quoted literal is open never ends the
\* value.  In every iteration that stands on such a mark with a quote open,
\* the "/" is appended to the value, the description stays as it is and
\* the loop goes on with the next character; and when the first literal of
\* the directive holds such a mark, the value starts with everything up to
\* the end of that literal, the description holds at most what follows a
\* comment mark behind the literal, and with no "/" behind the literal the
\* value is the whole text and the description is empty.
C4_QuotedCommentMarkStaysInValue ==
    DefineDone =>
        /\ \A k \in 1..(Len(define.trace) - 1) :
              LET st == define.trace[k]
                  nx == define.trace[k + 1]
              IN  ( /\ InQuote(st)
                    /\ At(st.line, st.i) = "/"
                    /\ At(st.line, st.i + 1) \in {"/", "*"} )
                  => /\ nx.value = Append(st.value, "/")
                     /\ nx.description = st.description
                     /\ nx.ctl = "continue"
                     /\ ~nx.blockComment
                     /\ nx.i = st.i + 1
                     /\ nx.line = st.line
        /\ ( HasFirstLiteral(Rest) /\ HasCommentMark(FirstLiteral(Rest)) )
           => LET e == LiteralEnd(Rest)
              IN  /\ IsPrefix(Slice(Rest, 0, e), Fin.value)
                  /\ \/ Fin.description = <<>>
                     \/ Len(Fin.description) + 2 <= Len(Rest) - e
                  /\ ~HasSlash(SliceFrom(Rest, e))
                     => /\ define.stored
                        /\ StoredItem.value = Rest
                        /\ StoredItem.description = <<>>

\* C4 witness: a stored define whose double-quoted literal holds "//".
C4_Witness ==
    /\ DefineDone
    /\ define.stored
    /\ Rest = <<SP, DQ, "/", "/", DQ>>
    /\ StoredItem.value = Rest

\* A well-formed one-line define with a trailing comment: behind the name
\* a value without quotes and without a comment mark, then the first "//".
WellFormedOneLine(s) ==
    /\ Occurrences(s, "/", "/") # {}
    /\ LET p == SetMin(Occurrences(s, "/", "/"))
       IN  /\ ~HasQuote(Slice(s, 0, p))
           /\ Occurrences(Slice(s, 0, p + 1), "/", "*") = {}
           /\ Trim(Slice(s, 0, p)) # <<>>
ValueText(s) == Slice(s, 0, SetMin(Occurrences(s, "/", "/")))
CommentText(s) == SliceFrom(s, SetMin(Occurrences(s, "/", "/")) + 2)

ThreeLineBlockComment ==
    /\ Occurrences(Rest, "/", "*") # {}
    /\ LET b == SetMin(Occurrences(Rest, "/", "*"))
       IN  /\ ~HasQuote(Slice(Rest, 0, b))
           /\ Occurrences(Slice(Rest, 0, b + 1), "/", "/") = {}
           /\ Occurrences(SliceFrom(Rest, b + 2), "*", "/") = {}
    /\ Len(define.before.lines) >= 2
    /\ Occurrences(define.before.lines[1], "*", "/") = {}
    /\ LET l2 == define.before.lines[2]
       IN  /\ Occurrences(l2, "*", "/") # {}
           /\ Occurrences(SliceFrom(l2, SetMax(Occurrences(l2, "*", "/")) + 2),
                          "/", "*") = {}

\* C6: in that case readDefine removes exactly the two continuation lines
\* from parser.lines, advances parser.lineNb by two, and the item's
\* fullRange is on the line of the "*/".
C6_ThreeLineCommentConsumed ==
    (DefineDone /\ ThreeLineBlockComment) =>
        /\ parser.lines = SubSeq(define.before.lines, 3,
                                 Len(define.before.lines))
        /\ parser.lineNb = define.before.lineNb + 2
        /\ define.stored
        /\ StoredItem.fullRange.line = define.before.lineNb + 2

\* C7: when the input ends with a string literal or a block comment still
\* open, no Define item is stored: parser.fileItems is as before the call.
C7_NoItemWhenUnterminated ==
    ( /\ DefineDone
      /\ Fin.lines = <<>>
      /\ (Fin.openDQuote \/ Fin.openSQuote \/ Fin.blockComment) )
    => parser.fileItems = define.before.fileItems

\* C15: once the scan is in a block comment it goes on, pulling lines,
\* until a "*/" closes the comment or parser.lines is exhausted: the loop
\* is never left with the comment open and lines still to test, and no
\* item is stored while the comment is open.
C15_NoItemInsideOpenBlockComment ==
    DefineDone =>
        /\ \A k \in 1..Len(define.trace) :
              (define.trace[k].blockComment /\ define.trace[k].ctl = "continue")
              => k < Len(define.trace)
        /\ define.stored => ~Fin.blockComment

\* C23: on every exit path of readDefine, the return of line 65 included,
\* parser.lineNb has grown by the number of lines the call removed from
\* parser.lines: lineNb plus the number of remaining lines is what it was
\* before the call.
C23_LineNbCountsRemovedLines ==
    DefineDone =>
        parser.lineNb + Len(parser.lines)
            = define.before.lineNb + Len(define.before.lines)


(***************************************************************************)
(* readDefine, one loop iteration at a time.                               *)
(*                                                                         *)
(* SpecDefineSteps runs the same call as ReadDefine with the iterations of *)
(* the loop of line 17 as steps: define.st is the loop state, and          *)
(* parser.lines and parser.lineNb change in the iteration that changes     *)
(* them.  Its inputs are the short directives, with and without lines left *)
(* in parser.lines, and two inputs that take more than IterCap iterations: *)
(* a line with an unterminated string of more than IterCap characters and  *)
(* an unterminated block comment over more than IterCap lines.             *)
(***************************************************************************)
MaxStepLen == 3
MaxStepLines == 1

StepLines == { <<>>, <<"*", "/">> }
StepLineLists == UNION {[1..k -> StepLines] : k \in 0..MaxStepLines}

\* `"xxx...` with IterCap + 1 characters behind the quote.
LongString == <<DQ>> \o [k \in 1..(IterCap + 1) |-> "x"]
\* IterCap + 1 lines of text without a "*/".
LongLines == [k \in 1..(IterCap + 1) |-> <<"x">>]

InitDefineSteps ==
    \E ps \in {ps \in ParserStarts : ps.lineNb = 0} :
        \/ \E rest \in Str(Chars, MaxStepLen), ls \in StepLineLists :
              DefineStart(ps, rest, ls)
        \/ DefineStart(ps, LongString, <<>>)
        \/ DefineStart(ps, <<"/", "*", "x">>, LongLines)

\* Lines 72-84: the item made from the locals the loop left.
StoreDefine(p, match, fin) ==
    [p EXCEPT !.fileItems =
        MapSet(@, match.name,
               DefineItem(match.name, fin.value, fin.description,
                          positiveRange(fin.lineNb, 0, Len(fin.line))))]

\* Lines 10-16: the call is entered.
DefineEnter ==
    /\ define.phase = "ready"
    /\ define' = [phase |-> "loop", match |-> define.match,
                  line |-> define.line, before |-> parser,
                  st |-> StartState(parser, define.match, define.line)]
    /\ UNCHANGED <<parser, repoVars, itemVars, sig, helperVars>>

\* Lines 17-69: the loop condition holds and the body runs once.
DefineIterate ==
    /\ define.phase = "loop"
    /\ define.st.ctl = "continue"
    /\ LoopCond(define.st)
    /\ LET st == Body(define.st)
       IN  /\ define' = [define EXCEPT !.st = st]
           /\ parser' = [parser EXCEPT !.lines = st.lines,
                                       !.lineNb = st.lineNb]
    /\ UNCHANGED <<repoVars, itemVars, sig, helperVars>>

\* The loop is left: by its condition or by the break of line 48, and the
\* item is stored (lines 72-84), or by the return of line 65.
DefineLeave ==
    /\ define.phase = "loop"
    /\ ~(define.st.ctl = "continue" /\ LoopCond(define.st))
    /\ define' = [define EXCEPT !.phase = "done"]
    /\ parser' = IF define.st.ctl = "return" THEN parser
                 ELSE StoreDefine(parser, define.match, define.st)
    /\ UNCHANGED <<repoVars, itemVars, sig, helperVars>>

NextDefineSteps ==
    \/ DefineEnter
    \/ DefineIterate
    \/ DefineLeave

\* A call that has started runs on: nothing else runs in the parser while
\* readDefine does.
SpecDefineSteps ==
    InitDefineSteps /\ [][NextDefineSteps]_vars /\ WF_vars(NextDefineSteps)

\* A step that is one iteration of the loop, and what it may do.
IsIteration == define.phase = "loop" /\ define'.phase = "loop"
AdvancesColumn == define'.st.i > define.st.i
RemovesLine == Len(parser'.lines) < Len(parser.lines)
LeavesLoop == define'.st.ctl \in {"break", "return"}

\* The iterations never exceed the cap, and the call ends.
WithinCapAndEnds ==
    /\ [](define.phase \in {"loop", "done"} => define.st.iter <= IterCap)
    /\ <>(define.phase = "done")

\* C21: readDefine terminates on every input, its loop makes at most 10,000
\* iterations in one call, and each iteration either advances the column
\* index or removes a line from parser.lines.
C21_EveryIterationAdvancesOrRemoves ==
    /\ WithinCapAndEnds
    /\ [][IsIteration => (AdvancesColumn \/ RemovesLine)]_vars

\* C21 as the code has it: readDefine terminates on every input, its loop
\* makes at most 10,000 iterations in one call, and each iteration advances
\* the column index, removes a line from parser.lines, or is the last one
\* (the break of line 48 at a line comment, the return of line 65 on
\* exhausted input).
C21_IterationsAdvanceRemoveOrLeave ==
    /\ WithinCapAndEnds
    /\ [][IsIteration => (AdvancesColumn \/ RemovesLine \/ LeavesLoop)]_vars

\* C21 witness: a call that the cap ended, after IterCap iterations with
\* text still to scan.
C21_Witness ==
    /\ define.phase = "done"
    /\ define.st.iter = IterCap
    /\ define.st.ctl = "continue"
    /\ define.st.i < Len(define.st.line)


(***************************************************************************)
(* CompletionRepository: the tables of the files and their include graph.  *)
(*                                                                         *)
(* A FileCompletions is a record of its uri, its includes (the uris that   *)
(* resolve_import pushed, in the order of the directives) and its          *)
(* completions (the values of the Map, in insertion order).  Completion    *)
(* objects are told apart by the file they were parsed from.               *)
(***************************************************************************)
MaxIncludes == 2
StackLimit == 6

Files == {"A", "B", "C"}
\* The documents the editor opens, and the one that is edited; any file
\* may be included.
Docs == {"A", "B"}
EditedDocs == {"A"}

\* The include lists a text may hold: at most MaxIncludes directives, each
\* file at most once, in the order of the names.
FileOrder == <<"A", "B", "C">>
RECURSIVE SortedSeq(_, _)
SortedSeq(S, k) ==
    IF k > Len(FileOrder) THEN <<>>
    ELSE (IF FileOrder[k] \in S THEN <<FileOrder[k]>> ELSE <<>>)
         \o SortedSeq(S, k + 1)
IncludeLists ==
    {SortedSeq(S, 1) : S \in {T \in SUBSET Files : Cardinality(T) <= MaxIncludes}}

Range(q) == {q[k] : k \in 1..Len(q)}

\* A Completion object: its class, the fields of the class (file for a
\* VariableCompletion, method_map for a MethodCompletion, "" otherwise)
\* and, as its identity, the file whose text declared it.
Completion(class, name, kind, uri, file, method_map) ==
    [class |-> class, name |-> name, kind |-> kind, origin |-> uri,
     file |-> file, method_map |-> method_map]

\* parse_blob / parse_file of smParser: the table of a text.  Every text
\* declares a function f, a variable v, a define d and a method m of the
\* methodmap M next to its include directives.
Declarations(uri) ==
    << Completion("FunctionCompletion", "f", "Function", uri, "", ""),
       Completion("VariableCompletion", "v", "Variable", uri, uri, ""),
       Completion("DefineCompletion", "d", "Variable", uri, "", ""),
       Completion("MethodCompletion", "m", "Method", uri, "", "M") >>
Parse(uri, includes) ==
    [uri |-> uri, includes |-> includes, completions |-> Declarations(uri)]

\* parse_file(file, ...): the text is read from disk.
ParseFile(d, uri) == Parse(uri, d[uri])

\* read_unscanned_imports(completions), lines 534-547, from the k-th
\* include on, at call depth depth.  The result is the repository and
\* whether the call returned; it does not return when the recursion
\* exceeds the call stack (RangeError), and then the Map.set calls behind
\* the pending calls are never made.
RECURSIVE read_unscanned_imports(_, _, _, _, _)
read_unscanned_imports(d, repo, incs, k, depth) ==
    IF depth > StackLimit THEN [repo |-> repo, ok |-> FALSE]
    ELSE IF k > Len(incs) THEN [repo |-> repo, ok |-> TRUE]
    ELSE LET uri == incs[k]
         IN  IF MapHas(repo, uri)
             THEN read_unscanned_imports(d, repo, incs, k + 1, depth)
             ELSE LET new_completions == ParseFile(d, uri)
                      r == read_unscanned_imports(d, repo,
                               new_completions.includes, 1, depth + 1)
                  IN  IF ~r.ok THEN r
                      ELSE read_unscanned_imports(d,
                               MapSet(r.repo, uri, new_completions),
                               incs, k + 1, depth)

\* get_included_files that does not descend into the included files.
get_included_files_direct(repo, incs, k, files) ==
    [j \in 1..Len(incs) |-> incs[j]]

\* get_included_files(completions, files), lines 629-639, from the k-th
\* include on.  files is the Set, held as the sequence of its elements in
\* insertion order.
RECURSIVE get_included_files(_, _, _, _)
get_included_files(repo, incs, k, files) ==
    IF k > Len(incs) THEN files
    ELSE LET uri == incs[k]
         IN  IF uri \in Range(files)
             THEN get_included_files(repo, incs, k + 1, files)
             ELSE LET added == Append(files, uri)
                      below == IF MapHas(repo, uri)
                               THEN get_included_files(repo,
                                        repo[uri].includes, 1, added)
                               ELSE added
                  IN  get_included_files(repo, incs, k + 1, below)

\* get_file_completions(file), lines 620-627.
get_file_completions(repo, file) ==
    IF MapHas(repo, file) THEN repo[file].completions ELSE <<>>

RECURSIVE ConcatAll(_, _)
ConcatAll(repo, files) ==
    IF files = <<>> THEN <<>>
    ELSE get_file_completions(repo, Head(files)) \o ConcatAll(repo, Tail(files))

\* get_all_completions that gives every file of the Set a table.
get_all_completions_indexing(repo, file) ==
    LET inc == IF MapHas(repo, file)
               THEN get_included_files(repo, repo[file].includes, 1, <<>>)
               ELSE <<>>
        includes == IF file \in Range(inc) THEN inc ELSE Append(inc, file)
    IN  [files |-> includes,
         items |-> ConcatAll(repo, includes),
         completions |->
            [u \in DOMAIN repo \cup Range(includes) |->
                IF MapHas(repo, u) THEN repo[u] ELSE Parse(u, <<>>)]]

\* get_all_completions(file), lines 603-618: the files of the Set in
\* insertion order, the completions returned, and this.completions after
\* the call.
get_all_completions(repo, file) ==
    LET inc == IF MapHas(repo, file)
               THEN get_included_files(repo, repo[file].includes, 1, <<>>)
               ELSE <<>>
        includes == IF file \in Range(inc) THEN inc ELSE Append(inc, file)
    IN  [files |-> includes,
         items |-> ConcatAll(repo, includes),
         completions |-> repo]

InitRepo ==
    /\ DefineIdle
    /\ ItemsIdle
    /\ SigIdle
    /\ HelpersIdle
    /\ disk \in [Files -> IncludeLists]
    /\ completions = EmptyMap
    /\ event = NoEvent
    /\ query = NoQuery
    /\ glob = "none"

\* handle_new_document(document), lines 519-525.  The text of a document
\* that is opened is the text on disk.
handle_new_document(doc) ==
    LET fc == Parse(doc, disk[doc])
        r  == read_unscanned_imports(disk, completions, fc.includes, 1, 1)
    IN  /\ completions' = IF r.ok THEN MapSet(r.repo, doc, fc) ELSE r.repo
        /\ event' = [op |-> "open", doc |-> doc, ok |-> r.ok]
        /\ query' = NoQuery
        /\ UNCHANGED <<disk, glob, defineVars, itemVars, sig, helperVars>>

\* handle_document_change(event), lines 527-532, for an edit that leaves
\* the document with the include directives includes.
handle_document_change(doc, includes) ==
    /\ completions' = MapSet(completions, doc, Parse(doc, includes))
    /\ event' = [op |-> "change", doc |-> doc, ok |-> TRUE]
    /\ query' = NoQuery
    /\ UNCHANGED <<disk, glob, defineVars, itemVars, sig, helperVars>>

\* A call of get_all_completions(file), as get_completions and
\* provideSignatureHelp make it.  calls counts the calls for this file
\* since the last event, up to 2.
GetAllCompletions(file) ==
    LET r == get_all_completions(completions, file)
    IN  /\ completions' = r.completions
        /\ query' = [op |-> "get", file |-> file, files |-> r.files,
                     items |-> r.items,
                     calls |-> IF query.op = "get" /\ query.file = file
                               THEN 2 ELSE 1]
        /\ event' = NoEvent
        /\ UNCHANGED <<disk, glob, defineVars, itemVars, sig, helperVars>>

NextRepo ==
    \/ \E doc \in Docs : handle_new_document(doc)
    \/ \E doc \in EditedDocs, includes \in IncludeLists :
          handle_document_change(doc, includes)
    \/ \E file \in Files : GetAllCompletions(file)

SpecRepo == InitRepo /\ [][NextRepo]_vars


(***************************************************************************)
(* Properties of the repository.                                           *)
(***************************************************************************)
NoDuplicates(q) == \A j, k \in 1..Len(q) : q[j] = q[k] => j = k

\* The files a file reaches over the include lists of the tables of the
\* repository: the least set that holds the includes of the file's table
\* and, with every file that has a table, the includes of that table.
IncludesOf(repo, uri) ==
    IF MapHas(repo, uri) THEN Range(repo[uri].includes) ELSE {}
RECURSIVE Grow(_, _, _)
Grow(repo, S, n) ==
    IF n = 0 THEN S
    ELSE Grow(repo, S \cup UNION {IncludesOf(repo, u) : u \in S}, n - 1)
TransitiveIncludes(repo, file) ==
    Grow(repo, IncludesOf(repo, file), Cardinality(Files))

\* C1: opening a document whose includes form a cycle through files with
\* no table yet (the document includes b and b includes the document, b
\* being the document itself for a file that includes itself) ends
\* normally, and afterwards the repository holds the table of the document
\* and the table of b.
C1_OpenOfCyclicIncludesIndexesBoth ==
    [][ \A doc \in Docs, b \in Files :
          ( /\ event'.op = "open"
            /\ event'.doc = doc
            /\ ~MapHas(completions, doc)
            /\ ~MapHas(completions, b)
            /\ b \in Range(disk[doc])
            /\ doc \in Range(disk[b]) )
          => /\ event'.ok
             /\ MapHas(completions', doc)
             /\ MapHas(completions', b)
             /\ completions'[b] = ParseFile(disk, b) ]_vars

\* C2: get_all_completions(file) returns the completions of the file and
\* of every file it reaches over the includes, each table once: the files
\* gone through are the file and its transitive includes, none twice, and
\* the result holds every completion of their tables exactly once and
\* nothing else.
C2_AllCompletionsIsTheIncludeClosure ==
    query.op = "get" =>
        LET closure == {query.file} \cup TransitiveIncludes(completions, query.file)
        IN  /\ NoDuplicates(query.files)
            /\ Range(query.files) = closure
            /\ \A u \in closure :
                 \A c \in Range(get_file_completions(completions, u)) :
                    Cardinality({k \in 1..Len(query.items) : query.items[k] = c}) = 1
            /\ \A k \in 1..Len(query.items) :
                 /\ query.items[k].origin \in closure
                 /\ query.items[k] \in
                      Range(get_file_completions(completions, query.items[k].origin))

\* C2 witness: a call for A, which lies on an include cycle (A reaches A)
\* and reaches C over two files, that returned the completions of the
\* three tables.
C2_Witness ==
    /\ query.op = "get"
    /\ query.file = "A"
    /\ "A" \in TransitiveIncludes(completions, "A")
    /\ "C" \in IncludesOf(completions, "A") \cap IncludesOf(completions, "B")
    /\ "B" \in IncludesOf(completions, "A")
    /\ Len(query.items) = 3 * Len(Declarations("A"))

\* C3: get_all_completions leaves the repository as it is, and a call that
\* follows a call for the same file with no event in between returns the
\* same sequence of items.
C3_ReadsAreIdempotent ==
    [][ query'.op = "get" =>
          /\ completions' = completions
          /\ (query.op = "get" /\ query.file = query'.file)
             => query'.items = query.items ]_vars

\* C3 witness: the second call in a row for a file with includes.
C3_Witness ==
    /\ query.op = "get"
    /\ query.calls = 2
    /\ Len(query.files) > 1
    /\ \E u \in Range(query.files) : ~MapHas(completions, u)

\* A table is whole when it holds everything the parser makes of a text
\* with its include directives.
WholeTable(t) == t = Parse(t.uri, t.includes)

\* C16: the step of an open or change event stores, under the key of the
\* event's document, the whole table of the document's text; every table
\* in the repository after the step is whole; and the step of a change
\* event leaves the entries of all other files as they were.
C16_EntriesAreReplacedWhole ==
    [][ event'.op \in {"open", "change"} =>
          /\ MapHas(completions', event'.doc)
          /\ WholeTable(completions'[event'.doc])
          /\ completions'[event'.doc].uri = event'.doc
          /\ event'.op = "open" =>
                completions'[event'.doc] = Parse(event'.doc, disk[event'.doc])
          /\ \A key \in DOMAIN completions' : WholeTable(completions'[key])
          /\ event'.op = "change" =>
                /\ DOMAIN completions' = DOMAIN completions \cup {event'.doc}
                /\ \A key \in DOMAIN completions \ {event'.doc} :
                      completions'[key] = completions[key]
      ]_vars

\* C22: after an open or change event has been handled, every file the
\* document reaches over the include lists of the tables, starting from
\* its own table, has a table in the repository; so a file whose include
\* directive an edit added has one.
C22_IncludeClosureIsIndexed ==
    event.op \in {"open", "change"} =>
        \A uri \in TransitiveIncludes(completions, event.doc) :
            MapHas(completions, uri)


(***************************************************************************)
(* Completion at a position (getCompletionListFromPosition).               *)
(*                                                                         *)
(* An item is a record of its name, its kind (the CompletionItemKind),     *)
(* its detail (the signature text, as the sequence of its words and        *)
(* parentheses), its parent and, for a methodmap, the name of the type it  *)
(* inherits from.  Items are objects: id tells them apart, and parent is   *)
(* the id of the enclosing methodmap or enum struct item (0 for none).     *)
(***************************************************************************)
MP == {"Method", "Property"}

Item(id, name, kind, parent, detail, base) ==
    [id |-> id, name |-> name, kind |-> kind, parent |-> parent,
     detail |-> detail, base |-> base]

\* The declarations every file set holds: methodmap Base, methodmap Foo
\* that inherits from Base, an unrelated methodmap Other, an enum struct
\* ES, the variables obj (a Foo), b (a Base) and s (an ES), a function.
BaseType == Item(1, "Base", "Class", 0, <<"methodmap", "Base">>, "")
FooType == Item(2, "Foo", "Class", 0, <<"methodmap", "Foo", "<", "Base">>, "Base")
OtherType == Item(3, "Other", "Class", 0, <<"methodmap", "Other">>, "")
StructType == Item(4, "ES", "Struct", 0, <<"enum", "struct", "ES">>, "")
FixedItems ==
    << BaseType, FooType, OtherType, StructType,
       Item(5, "obj", "Variable", 0, <<"Foo", "obj">>, ""),
       Item(6, "b", "Variable", 0, <<"Base", "b">>, ""),
       Item(7, "s", "Variable", 0, <<"ES", "s">>, ""),
       Item(8, "Fn", "Function", 0, <<"void", "Fn", "(", ")">>, "") >>

\* The members a file set may declare: for each methodmap an instance
\* method, a static method and a property, for the enum struct a method,
\* and the constructor of Foo.
MemberPool ==
    << Item(11, "Get", "Method", 1, <<"public", "int", "Get", "(", ")">>, ""),
       Item(12, "Make", "Method", 1,
            <<"public", "static", "Base", "Make", "(", ")">>, ""),
       Item(13, "Len", "Property", 1, <<"property", "int", "Len">>, ""),
       Item(21, "Set", "Method", 2, <<"public", "void", "Set", "(", ")">>, ""),
       Item(22, "Open", "Method", 2,
            <<"public", "static", "Foo", "Open", "(", ")">>, ""),
       Item(23, "Size", "Property", 2, <<"property", "int", "Size">>, ""),
       Item(24, "Foo", "Method", 2, <<"public", "Foo", "(", ")">>, ""),
       Item(31, "Run", "Method", 3, <<"public", "void", "Run", "(", ")">>, ""),
       Item(32, "New", "Method", 3,
            <<"public", "static", "Other", "New", "(", ")">>, ""),
       Item(33, "Id", "Property", 3, <<"property", "int", "Id">>, ""),
       Item(41, "Init", "Method", 4, <<"void", "Init", "(", ")">>, "") >>

\* The receivers of a method call, as getTypeOfVariable reports them: the
\* words of the expression before the dot and the name of its type.  A
\* variable, a methodmap named itself, and a field of another expression.
Receivers ==
    { [words |-> <<"obj">>, variableType |-> "Foo"],
      [words |-> <<"Foo">>, variableType |-> "Foo"],
      [words |-> <<"b">>, variableType |-> "Base"],
      [words |-> <<"Base">>, variableType |-> "Base"],
      [words |-> <<"Other">>, variableType |-> "Other"],
      [words |-> <<"s">>, variableType |-> "ES"],
      [words |-> <<"obj", "x">>, variableType |-> "Foo"] }

\* getAllInheritances(methodmap, allItems) of spItemsPropertyGetters: the
\* methodmap and, along the base type names, its ancestors, up to the
\* first one already met.
RECURSIVE Inheritances(_, _, _)
Inheritances(mm, items, seen) ==
    LET bases == SelectSeq(items, LAMBDA e : e.kind = "Class" /\ e.name = mm.base)
    IN  IF mm.base = "" \/ bases = <<>> \/ bases[1].id \in seen \cup {mm.id}
        THEN <<mm>>
        ELSE <<mm>> \o Inheritances(bases[1], items, seen \cup {mm.id})
getAllInheritances(mm, items) == Inheritances(mm, items, {})

\* item.toCompletionItem(lastFunc) of a method, property or global item.
toCompletionItem(item) ==
    [label |-> item.name, kind |-> item.kind, item |-> item.id]

\* Line 173: /\bstatic\b[^\(]*\(/.test(item.detail): the word static with
\* an opening parenthesis somewhere behind it.
HasStaticMarker(detail) ==
    \E j, k \in 1..Len(detail) : j < k /\ detail[j] = "static" /\ detail[k] = "("

Ids(q) == {q[k].id : k \in 1..Len(q)}

\* KeepMethodItem without the comparison of the static marker.
KeepMethodItemAnyStatic(item, variableTypes, isMethodMap) ==
    /\ item.kind \in MP
    /\ item.parent \in Ids(variableTypes)
    /\ item.id \notin Ids(variableTypes)

\* Lines 166-174: the condition of getMethodItems.  The includes calls
\* compare objects.
KeepMethodItem(item, variableTypes, isMethodMap) ==
    /\ item.kind \in MP
    /\ item.parent \in Ids(variableTypes)
    /\ item.id \notin Ids(variableTypes)
    /\ isMethodMap = HasStaticMarker(item.detail)

\* getMethodItems(allItems, variableTypes, isMethodMap, lastFunc), lines
\* 157-186.
getMethodItems(items, variableTypes, isMethodMap) ==
    LET kept == SelectSeq(items,
                    LAMBDA e : KeepMethodItem(e, variableTypes, isMethodMap))
    IN  [k \in 1..Len(kept) |-> toCompletionItem(kept[k])]

\* getNonMethodItems(allItems, lastFunc), lines 188-204.
getNonMethodItems(items) ==
    LET kept == SelectSeq(items, LAMBDA e : e.kind \notin MP)
    IN  [k \in 1..Len(kept) |-> toCompletionItem(kept[k])]

\* getCompletionListFromPosition, lines 100-155, given what isMethodCall
\* and getTypeOfVariable report.  Line 138 reads the kind of
\* variableTypeItem, which is a TypeError when no item has the type's name.
getCompletionListFromPosition(items, isMethod, receiver) ==
    IF ~isMethod THEN [status |-> "ok", list |-> getNonMethodItems(items)]
    ELSE LET found == SelectSeq(items, LAMBDA e :
                         e.kind \in {"Class", "Struct"}
                         /\ e.name = receiver.variableType)
         IN  IF found = <<>> THEN [status |-> "TypeError", list |-> <<>>]
             ELSE LET variableTypeItem == found[1]
                      variableTypes ==
                          IF variableTypeItem.kind = "Class"
                          THEN getAllInheritances(variableTypeItem, items)
                          ELSE <<variableTypeItem>>
                      isMethodMap ==
                          /\ Len(receiver.words) = 1
                          /\ \E k \in 1..Len(items) :
                                /\ items[k].name = receiver.words[1]
                                /\ items[k].kind = "Class"
                  IN  [status |-> "ok",
                       list |-> getMethodItems(items, variableTypes, isMethodMap)]

InitItems ==
    /\ DefineIdle
    /\ RepoIdle
    /\ SigIdle
    /\ HelpersIdle
    /\ \E chosen \in SUBSET Ids(MemberPool) :
          allItems = FixedItems \o SelectSeq(MemberPool, LAMBDA e : e.id \in chosen)
    /\ request = NoRequest

\* A completion request behind the dot of a method call.
CompleteAtMethodCall(receiver) ==
    LET r == getCompletionListFromPosition(allItems, TRUE, receiver)
    IN  /\ request' = [op |-> "complete", isMethod |-> TRUE,
                       words |-> receiver.words,
                       variableType |-> receiver.variableType,
                       status |-> r.status, list |-> r.list]
        /\ UNCHANGED <<allItems, defineVars, repoVars, sig, helperVars>>

\* A completion request anywhere else.
CompleteElsewhere ==
    LET r == getCompletionListFromPosition(allItems, FALSE, [words |-> <<>>])
    IN  /\ request' = [op |-> "complete", isMethod |-> FALSE,
                       words |-> <<>>, variableType |-> "",
                       status |-> r.status, list |-> r.list]
        /\ UNCHANGED <<allItems, defineVars, repoVars, sig, helperVars>>

NextItems ==
    \/ \E receiver \in Receivers : CompleteAtMethodCall(receiver)
    \/ CompleteElsewhere

SpecItems == InitItems /\ [][NextItems]_vars

(***************************************************************************)
(* Properties of method completion.                                        *)
(***************************************************************************)
\* The types whose members a receiver of the type has, by the declarations
\* of FixedItems: Foo inherits from Base.
MemberTypes(typeName) ==
    CASE typeName = "Foo" -> {FooType.id, BaseType.id}
      [] typeName = "Base" -> {BaseType.id}
      [] typeName = "Other" -> {OtherType.id}
      [] typeName = "ES" -> {StructType.id}

ItemOf(id) == CHOOSE it \in Range(allItems) : it.id = id
Returned == {request.list[k].item : k \in 1..Len(request.list)}
IsTypeName(words) ==
    Len(words) = 1 /\ words[1] \in {"Base", "Foo", "Other"}
CarriesStatic(item) == "static" \in Range(item.detail)

C9_NoConstructorEntry ==
    (request.op = "complete" /\ request.isMethod /\ request.variableType = "Foo")
    => \A id \in Returned :
          ~( /\ ItemOf(id).kind = "Method"
             /\ ItemOf(id).name = "Foo"
             /\ ItemOf(id).parent = FooType.id )


(***************************************************************************)
(* Signature help (CompletionRepository.provideSignatureHelp).             *)
(***************************************************************************)
MaxSigLen == 6

\* The characters the scan tells apart: an identifier character, the two
\* parentheses and the comma.
SigChars == {"f", "(", ")", ","}

\* line[i].match(/[A-Za-z0-9_]/) for the characters of SigChars.
IsIdentChar(c) == c = "f"

\* Lines 660-674: the loop from column i down to 0.  st holds method,
\* end_parameters and parameter_count.
RECURSIVE ScanBack(_, _, _)
ScanBack(line, i, st) ==
    IF i < 0 THEN st
    ELSE IF st.end_parameters
    THEN IF IsIdentChar(At(line, i))
         THEN ScanBack(line, i - 1, [st EXCEPT !.method = <<At(line, i)>> \o @])
         ELSE st
    ELSE IF At(line, i) = "("
    THEN ScanBack(line, i - 1, [st EXCEPT !.end_parameters = TRUE])
    ELSE IF At(line, i) = ","
    THEN ScanBack(line, i - 1, [st EXCEPT !.parameter_count = @ + 1])
    ELSE ScanBack(line, i - 1, st)

\* Lines 648-677: the method and the parameter count at the cursor.
\* method is "undefined" when the call is already closed.
MethodAtCursor(line, character) ==
    IF At(line, character - 1) = ")"
    THEN [method |-> "undefined", parameter_count |-> 0]
    ELSE LET st == ScanBack(line, character,
                      [method |-> <<>>, end_parameters |-> FALSE,
                       parameter_count |-> 0])
         IN  [method |-> st.method, parameter_count |-> st.parameter_count]

\* The name of a completion as text; the names of Declarations are one
\* character long.
NameText(completion) == <<completion.name>>

\* get_signature() of a completion: FunctionCompletion and
\* MethodCompletion give a SignatureInformation, the others undefined.
get_signature(completion) ==
    IF completion.kind \in {"Function", "Method"}
    THEN [label |-> completion.name]
    ELSE "undefined"

NoSignature == [signatures |-> <<>>, activeSignature |-> 0, activeParameter |-> 0]

\* provideSignatureHelp(document, position, token), lines 641-699, for a
\* document with the uri uri.
provideSignatureHelp(repo, uri, line, character) ==
    LET m == MethodAtCursor(line, character)
        found == SelectSeq(get_all_completions(repo, uri).items,
                           LAMBDA c : NameText(c) = m.method)
    IN  IF found # <<>>
        THEN [signatures |-> <<get_signature(found[1])>>,
              activeSignature |-> 0,
              activeParameter |-> m.parameter_count]
        ELSE NoSignature

\* The repository of the signature requests: document A, opened, with no
\* includes.
SigRepo == MapSet(EmptyMap, "A", Parse("A", <<>>))

InitSig ==
    /\ DefineIdle
    /\ ItemsIdle
    /\ HelpersIdle
    /\ disk = [f \in Files |-> <<>>]
    /\ completions = SigRepo
    /\ event = NoEvent
    /\ query = NoQuery
    /\ glob = "none"
    /\ \E line \in Str(SigChars, MaxSigLen) :
       \E character \in 0..Len(line) :
          sig = [op |-> "ready", line |-> line, character |-> character]

\* The editor asks for signature help at the cursor.
ProvideSignatureHelp ==
    /\ sig.op = "ready"
    /\ sig' = [op |-> "done", line |-> sig.line, character |-> sig.character,
               result |-> provideSignatureHelp(completions, "A", sig.line,
                                               sig.character)]
    /\ UNCHANGED <<defineVars, repoVars, itemVars, helperVars>>

NextSig == ProvideSignatureHelp

SpecSig == InitSig /\ [][NextSig]_vars

(***************************************************************************)
(* Properties of signature help.                                           *)
(***************************************************************************)
\* The call the cursor is in, read to the left of the cursor: the nearest
\* "(" that no ")" between it and the cursor closes, and the number of
\* commas between it and the cursor that are in no closed pair of
\* parentheses.  depth counts the ")" still to be matched.
RECURSIVE OpenCall(_, _, _, _)
OpenCall(line, i, depth, commas) ==
    IF i < 0 THEN [found |-> FALSE]
    ELSE IF At(line, i) = ")" THEN OpenCall(line, i - 1, depth + 1, commas)
    ELSE IF At(line, i) = "(" /\ depth > 0
    THEN OpenCall(line, i - 1, depth - 1, commas)
    ELSE IF At(line, i) = "("
    THEN [found |-> TRUE, at |-> i, commas |-> commas]
    ELSE IF At(line, i) = "," /\ depth = 0
    THEN OpenCall(line, i - 1, depth, commas + 1)
    ELSE OpenCall(line, i - 1, depth, commas)

\* The identifier that ends right before column i.
RECURSIVE IdentBefore(_, _)
IdentBefore(line, i) ==
    IF i >= 1 /\ IsIdentChar(At(line, i - 1))
    THEN Append(IdentBefore(line, i - 1), At(line, i - 1))
    ELSE <<>>

\* The answer the claim describes.
ClaimedSignatureHelp(repo, uri, line, character) ==
    LET call == OpenCall(line, character - 1, 0, 0)
    IN  IF At(line, character - 1) = ")" \/ ~call.found THEN NoSignature
        ELSE LET found == SelectSeq(get_all_completions(repo, uri).items,
                              LAMBDA c : NameText(c) = IdentBefore(line, call.at))
             IN  IF found = <<>> THEN NoSignature
                 ELSE [signatures |-> <<get_signature(found[1])>>,
                       activeSignature |-> 0,
                       activeParameter |-> call.commas]

\* C10: for every line and cursor column, the callable is the identifier
\* right before the nearest unmatched "(" to the left of the cursor, the
\* active parameter is the number of commas between that "(" and the
\* cursor outside closed parentheses, and with a ")" right before the
\* cursor no signature is reported.
C10_SignatureOfEnclosingCall ==
    sig.op = "done" =>
        sig.result = ClaimedSignatureHelp(completions, "A", sig.line,
                                          sig.character)


(***************************************************************************)
(* The completion list of the repository                                   *)
(* (CompletionRepository.get_completions).                                 *)
(***************************************************************************)
MaxCallLen == 2

\* The characters the scan of get_completions tells apart: an identifier
\* character, the dot and a blank.
CallChars == {"f", ".", SP}
CallLines == Str(CallChars, MaxCallLen)

\* Lines 567-577: the scan from the last but one character of the trimmed
\* line down: identifier characters are skipped, then a dot gives
\* is_method and anything else ends the scan.
RECURSIVE ScanForDot(_, _)
ScanForDot(line, i) ==
    IF i < 0 THEN FALSE
    ELSE IF IsIdentChar(At(line, i)) THEN ScanForDot(line, i - 1)
    ELSE At(line, i) = "."

\* Lines 564-578: is_method for the line of the position.
is_method_line(line) == ScanForDot(Trim(line), Len(Trim(line)) - 2)

\* completion.to_completion_item(file) of the Completion classes, lines
\* 259-265, 298-306, 326-331 and 348-360.  A label is the sequence of the
\* parts of the string; <<>> is the empty string.
to_completion_item(completion, file) ==
    CASE completion.class = "FunctionCompletion" ->
           [label |-> <<completion.name>>, kind |-> completion.kind]
      [] completion.class = "MethodCompletion" ->
           [label |-> <<completion.method_map, ".", completion.name>>,
            kind |-> completion.kind]
      [] completion.class = "DefineCompletion" ->
           [label |-> <<completion.name>>, kind |-> completion.kind]
      [] completion.class = "VariableCompletion" ->
           IF file = completion.file
           THEN [label |-> <<completion.name>>, kind |-> completion.kind]
           ELSE [label |-> <<>>, kind |-> completion.kind]

\* get_completions(document, position), lines 563-601, for the document
\* with the uri uri and the line line at the position.  The two filter
\* calls of lines 591 and 596 build arrays that are dropped, so both
\* branches return the list as it was mapped.  of names, entry by entry,
\* the Completion object an entry was made from.
get_completions(repo, uri, line) ==
    LET is_method == is_method_line(line)
        all_completions == get_all_completions(repo, uri).items
        items == [k \in 1..Len(all_completions) |->
                     to_completion_item(all_completions[k], uri)]
    IN  [is_method |-> is_method,
         items |-> IF is_method THEN items ELSE items,
         of |-> all_completions]

\* provideCompletionItems(document, position, token), lines 505-513.
provideCompletionItems(file, line) ==
    LET r == get_completions(completions, file, line)
    IN  /\ query' = [op |-> "complete", file |-> file, line |-> line,
                     is_method |-> r.is_method, items |-> r.items,
                     of |-> r.of]
        /\ event' = NoEvent
        /\ UNCHANGED <<disk, completions, glob, defineVars, itemVars, sig,
                     helperVars>>

\* Completion requests against the repositories that opening documents
\* builds.
NextCompletions ==
    \/ \E doc \in Docs : handle_new_document(doc)
    \/ \E file \in Docs, line \in CallLines : provideCompletionItems(file, line)

SpecCompletions == InitRepo /\ [][NextCompletions]_vars


(***************************************************************************)
(* Properties of the completion list of the repository.                    *)
(***************************************************************************)
\* C11: the list returned for a document holds no entry, named or with an
\* empty label, made from a variable or a define that another file
\* declares, also when the document includes that file.
C11_NoEntryOfForeignVariables ==
    query.op = "complete" =>
        \A k \in 1..Len(query.items) :
            ~( /\ query.of[k].class \in {"VariableCompletion", "DefineCompletion"}
               /\ query.of[k].origin # query.file )

\* C12: the list returned holds at most one entry for a name (label) and
\* kind, also when two files of the include closure declare the name.
C12_OneEntryPerNameAndKind ==
    query.op = "complete" =>
        \A j, k \in 1..Len(query.items) :
            ( /\ query.items[j].label = query.items[k].label
              /\ query.items[j].kind = query.items[k].kind ) => j = k

\* C20: at a method-call site the list holds only entries of kind Method,
\* and anywhere else it holds no entry of kind Method.
C20_MethodEntriesOnlyAtMethodCalls ==
    query.op = "complete" =>
        \A k \in 1..Len(query.items) :
            query.is_method <=> query.items[k].kind = "Method"


(***************************************************************************)
(* Queries for a document that was never indexed.                          *)
(***************************************************************************)
\* The repository after handle_new_document(doc) on an empty repository.
OpenedRepo(d, doc) ==
    LET fc == Parse(doc, d[doc])
        r  == read_unscanned_imports(d, EmptyMap, fc.includes, 1, 1)
    IN  MapSet(r.repo, doc, fc)

\* Files on disk of which B includes C and nothing includes A.
UnindexedDisk == [f \in Files |-> IF f = "B" THEN <<"C">> ELSE <<>>]

\* Document A has no table: the repository is empty or holds the tables
\* that opening B stored, and itemsRepo.getAllItems(A) has no item.  A
\* signature request for A is pending.
InitUnindexed ==
    /\ DefineIdle
    /\ HelpersIdle
    /\ disk = UnindexedDisk
    /\ completions \in {EmptyMap, OpenedRepo(UnindexedDisk, "B")}
    /\ event = NoEvent
    /\ query = NoQuery
    /\ glob = "none"
    /\ allItems = <<>>
    /\ request = NoRequest
    /\ \E line \in Str(SigChars, MaxCallLen) :
       \E character \in 0..Len(line) :
          sig = [op |-> "ready", line |-> line, character |-> character]

\* The queries the editor makes for document A.
NextUnindexed ==
    \/ \E line \in CallLines : provideCompletionItems("A", line)
    \/ ProvideSignatureHelp
    \/ \E receiver \in Receivers : CompleteAtMethodCall(receiver)
    \/ CompleteElsewhere

SpecUnindexed == InitUnindexed /\ [][NextUnindexed]_vars

\* C13: a completion request or a signature request for a document with
\* no table in the repository returns an empty result and raises no
\* exception, whatever the line and the cursor, method calls included.
C13_UnindexedDocumentGivesEmptyResults ==
    ~MapHas(completions, "A") =>
        /\ (query.op = "complete" /\ query.file = "A") => query.items = <<>>
        /\ sig.op = "done" => sig.result = NoSignature
        /\ request.op = "complete" =>
              (request.status = "ok" /\ request.list = <<>>)


(***************************************************************************)
(* The standard library (CompletionRepository.parse_sm_api).               *)
(*                                                                         *)
(* glob is "none" before parse_sm_api is called, "pending" while the glob  *)
(* call is under way and "done" once its callback has run.  The callback   *)
(* runs as one step between the events of the editor.                      *)
(***************************************************************************)
\* The key "file://__sourcemod_builtin/" + name of the one file of the
\* standard library, and the uri of that file under sourcemod_home.
Builtins == {"S"}
HomeUri(key) == CASE key = "S" -> "sourcemod_home/S"

\* The include lists of the texts: a document may include the file of the
\* standard library, by a target that resolve_import gives the built-in
\* key (line 478).
BuiltinIncludeLists == {<<>>, <<"S">>, <<"B">>, <<"B", "S">>}

InitBuiltin ==
    /\ DefineIdle
    /\ ItemsIdle
    /\ SigIdle
    /\ HelpersIdle
    /\ \E la \in BuiltinIncludeLists, lb \in {<<>>, <<"S">>} :
          disk = [f \in Files \cup Builtins |->
                     IF f = "A" THEN la ELSE IF f = "B" THEN lb ELSE <<>>]
    /\ completions = EmptyMap
    /\ event = NoEvent
    /\ query = NoQuery
    /\ glob = "none"

\* parse_sm_api(sourcemod_home), lines 549-551: the glob call is started.
parse_sm_api ==
    /\ glob = "none"
    /\ glob' = "pending"
    /\ event' = [op |-> "parse_sm_api"]
    /\ query' = NoQuery
    /\ UNCHANGED <<disk, completions, defineVars, itemVars, sig, helperVars>>

\* The tables the callback stores, lines 552-559, from the k-th file on:
\* a FileCompletions with the uri of the file under sourcemod_home, under
\* the built-in key.
RECURSIVE StoreBuiltins(_, _)
StoreBuiltins(repo, keys) ==
    IF keys = {} THEN repo
    ELSE LET key == CHOOSE x \in keys : TRUE
         IN  StoreBuiltins(MapSet(repo, key, Parse(HomeUri(key), disk[key])),
                           keys \ {key})

\* The callback of glob, lines 551-560.
GlobCallback ==
    /\ glob = "pending"
    /\ glob' = "done"
    /\ completions' = StoreBuiltins(completions, Builtins)
    /\ event' = [op |-> "glob"]
    /\ query' = NoQuery
    /\ UNCHANGED <<disk, defineVars, itemVars, sig, helperVars>>

NextBuiltin ==
    \/ parse_sm_api
    \/ GlobCallback
    \/ \E doc \in Docs : handle_new_document(doc)
    \/ \E doc \in EditedDocs, includes \in BuiltinIncludeLists :
          handle_document_change(doc, includes)
    \/ \E file \in Docs \cup Builtins : GetAllCompletions(file)

SpecBuiltin == InitBuiltin /\ [][NextBuiltin]_vars

\* C14: in every interleaving of the glob callback with the open and
\* change events, a table stored under a built-in key stays as it is: no
\* step replaces or alters it.
C14_BuiltinEntriesAreWrittenOnce ==
    [][ \A key \in Builtins :
           MapHas(completions, key) =>
              (MapHas(completions', key) /\ completions'[key] = completions[key])
      ]_vars


(***************************************************************************)
(* The include resolver (FileCompletions.resolve_import).                  *)
(*                                                                         *)
(* A path is a record of its directories (parts), the name of the file     *)
(* and its extension; a uri adds the namespace: "file" for                 *)
(* URI.file(path).toString(), "builtin" for a string that starts with      *)
(* "file://__sourcemod_builtin/".  importer holds the directory of the     *)
(* FileCompletions' uri, the working directory of the process, the files   *)
(* that exist, the includes pushed so far and the last call.               *)
(***************************************************************************)
MaxImports == 2

Dirs == {<<"p">>, <<"q">>}
TargetParts == {<<>>, <<"d">>, <<"..">>}
Targets == {[parts |-> ps, name |-> "x"] : ps \in TargetParts}

\* path.normalize on the directories: ".." takes back the directory
\* before it.
RECURSIVE Normalize(_, _)
Normalize(done, todo) ==
    IF todo = <<>> THEN done
    ELSE IF Head(todo) = ".." /\ done # <<>>
    THEN Normalize(SubSeq(done, 1, Len(done) - 1), Tail(todo))
    ELSE IF Head(todo) = ".." THEN Normalize(done, Tail(todo))
    ELSE Normalize(Append(done, Head(todo)), Tail(todo))

\* file + ".inc" and file + ".sp": the target with an extension.
WithExt(file, ext) == [parts |-> file.parts, name |-> file.name, ext |-> ext]

\* path.join(a, b, c) and path.resolve(a, c) for an absolute directory a:
\* the normalized path of c below a (and b).
PathJoin(dir, sub, path) ==
    [parts |-> Normalize(<<>>, dir \o sub \o path.parts),
     name |-> path.name, ext |-> path.ext]

\* URI.file(path).toString().
FileUri(path) ==
    [ns |-> "file", parts |-> path.parts, name |-> path.name, ext |-> path.ext]

\* "file://__sourcemod_builtin/" + uri.
BuiltinUri(path) ==
    [ns |-> "builtin", parts |-> path.parts, name |-> path.name,
     ext |-> path.ext]

\* new Include(uri, IsBuiltIn).
Include(uri, IsBuiltIn) == [uri |-> uri, IsBuiltIn |-> IsBuiltIn]

\* resolve_import(file, relative, IsBuiltIn), lines 461-491: the includes
\* after the call.  path.resolve(file + ".sp") of line 487 has one
\* argument and resolves against the working directory of the process.
resolve_import(imp, file, relative, IsBuiltIn) ==
    LET uri == WithExt(file, "inc")
        base_directory == imp.dir
    IN  IF ~relative
        THEN LET inc_file == PathJoin(base_directory, <<"include">>, uri)
             IN  IF inc_file \in imp.exists
                 THEN Append(imp.includes, Include(FileUri(inc_file), IsBuiltIn))
                 ELSE Append(imp.includes, Include(BuiltinUri(uri), IsBuiltIn))
        ELSE LET inc_file == PathJoin(base_directory, <<>>, uri)
             IN  IF inc_file \in imp.exists
                 THEN Append(imp.includes, Include(FileUri(inc_file), IsBuiltIn))
                 ELSE Append(imp.includes,
                             Include(FileUri(PathJoin(imp.cwd, <<>>,
                                                      WithExt(file, "sp"))),
                                     IsBuiltIn))

\* The files that may exist: the include file beside the including file,
\* under its include directory and under the working directory, and the
\* source file beside the including file.
MayExist ==
    { [parts |-> <<"p">>, name |-> "x", ext |-> "inc"],
      [parts |-> <<"p", "include">>, name |-> "x", ext |-> "inc"],
      [parts |-> <<"p", "d">>, name |-> "x", ext |-> "inc"],
      [parts |-> <<"p">>, name |-> "x", ext |-> "sp"] }

InitImport ==
    /\ DefineIdle
    /\ RepoIdle
    /\ ItemsIdle
    /\ SigIdle
    /\ provider = NoProvider
    /\ \E cwd \in Dirs, exists \in SUBSET MayExist :
          importer = [op |-> "new", dir |-> <<"p">>, cwd |-> cwd,
                      exists |-> exists, includes |-> <<>>]

\* The parser meets an include directive and calls resolve_import.
ResolveImport(file, relative, IsBuiltIn) ==
    /\ importer.op # "none"
    /\ Len(importer.includes) < MaxImports
    /\ importer' =
          [op |-> "resolved", dir |-> importer.dir, cwd |-> importer.cwd,
           exists |-> importer.exists,
           includes |-> resolve_import(importer, file, relative, IsBuiltIn),
           file |-> file, relative |-> relative, IsBuiltIn |-> IsBuiltIn,
           before |-> importer.includes]
    /\ UNCHANGED <<defineVars, repoVars, itemVars, sig, provider>>

NextImport ==
    \E file \in Targets, relative \in BOOLEAN, IsBuiltIn \in BOOLEAN :
        ResolveImport(file, relative, IsBuiltIn)

SpecImport == InitImport /\ [][NextImport]_vars

\* C17: a non-relative target resolves to include/<target>.inc beside the
\* including file when that file exists and to the built-in namespace
\* otherwise; a relative target resolves to <target>.inc below the
\* directory of the including file when that file exists and to
\* <target>.sp in that directory otherwise.  Each call appends exactly one
\* Include, and a built-in uri is never the uri of a file.
C17_ResolveImportTargets ==
    importer.op = "resolved" =>
        LET added == importer.includes[Len(importer.includes)]
            inc == WithExt(importer.file, "inc")
            beside == PathJoin(importer.dir, <<>>, inc)
            below == PathJoin(importer.dir, <<"include">>, inc)
            sibling == PathJoin(importer.dir, <<>>, WithExt(importer.file, "sp"))
        IN  /\ importer.includes = Append(importer.before, added)
            /\ added.uri =
                 IF ~importer.relative
                 THEN IF below \in importer.exists
                      THEN FileUri(below) ELSE BuiltinUri(inc)
                 ELSE IF beside \in importer.exists
                      THEN FileUri(beside) ELSE FileUri(sibling)
            /\ \A path \in importer.exists : BuiltinUri(inc) # FileUri(path)


(***************************************************************************)
(* spDefinitionProvider: isInAString.                                      *)
(***************************************************************************)
MaxStrLen == 5

BS == "\\"
StrChars == {SQ, DQ, BS, "x"}

\* StrStep that does not look at isEscaped.
StrStepNoEscape(st, c) ==
    IF c = SQ
    THEN IF st.delimiter = SQ
         THEN [st EXCEPT !.isAString = FALSE, !.delimiter = "undefined",
                         !.isEscaped = FALSE]
         ELSE IF st.delimiter = "undefined"
         THEN [st EXCEPT !.isAString = TRUE, !.delimiter = SQ,
                         !.isEscaped = FALSE]
         ELSE [st EXCEPT !.isEscaped = FALSE]
    ELSE IF c = DQ
    THEN IF st.delimiter = DQ
         THEN [st EXCEPT !.isAString = FALSE, !.delimiter = "undefined",
                         !.isEscaped = FALSE]
         ELSE IF st.delimiter = "undefined"
         THEN [st EXCEPT !.isAString = TRUE, !.delimiter = DQ,
                         !.isEscaped = FALSE]
         ELSE [st EXCEPT !.isEscaped = FALSE]
    ELSE IF c = BS
    THEN [st EXCEPT !.isEscaped = TRUE]
    ELSE [st EXCEPT !.isEscaped = FALSE]

\* Lines 55-75: one iteration of the loop of isInAString on the character
\* c; st holds isEscaped, isAString and delimiter.
StrStep(st, c) ==
    IF c = SQ /\ ~st.isEscaped
    THEN IF st.delimiter = SQ
         THEN [st EXCEPT !.isAString = FALSE, !.delimiter = "undefined",
                         !.isEscaped = FALSE]
         ELSE IF st.delimiter = "undefined"
         THEN [st EXCEPT !.isAString = TRUE, !.delimiter = SQ,
                         !.isEscaped = FALSE]
         ELSE [st EXCEPT !.isEscaped = FALSE]
    ELSE IF c = DQ /\ ~st.isEscaped
    THEN IF st.delimiter = DQ
         THEN [st EXCEPT !.isAString = FALSE, !.delimiter = "undefined",
                         !.isEscaped = FALSE]
         ELSE IF st.delimiter = "undefined"
         THEN [st EXCEPT !.isAString = TRUE, !.delimiter = DQ,
                         !.isEscaped = FALSE]
         ELSE [st EXCEPT !.isEscaped = FALSE]
    ELSE IF c = BS
    THEN [st EXCEPT !.isEscaped = TRUE]
    ELSE [st EXCEPT !.isEscaped = FALSE]

\* Line 54: the loop from column i on.
RECURSIVE StrLoop(_, _, _, _)
StrLoop(line, end, i, st) ==
    IF i < Len(line) /\ i < end
    THEN StrLoop(line, end, i + 1, StrStep(st, At(line, i)))
    ELSE st

\* isInAString(range, line), lines 48-78, with end = range.end.character.
isInAString(end, line) ==
    StrLoop(line, end, 0,
            [isEscaped |-> FALSE, isAString |-> FALSE,
             delimiter |-> "undefined"]).isAString

InitString ==
    /\ DefineIdle
    /\ RepoIdle
    /\ ItemsIdle
    /\ SigIdle
    /\ importer = NoImporter
    /\ \E line \in Str(StrChars, MaxStrLen) :
       \E end \in 0..(Len(line) + 1) :
          provider = [op |-> "ready", fn |-> "isInAString", line |-> line,
                      end |-> end]

\* A provider asks whether the end of a range lies in a string.
IsInAString ==
    /\ provider.op = "ready"
    /\ provider.fn = "isInAString"
    /\ provider' = [provider EXCEPT !.op = "done"]
                   @@ [result |-> isInAString(provider.end, provider.line)]
    /\ UNCHANGED <<defineVars, repoVars, itemVars, sig, importer>>

NextString == IsInAString

SpecString == InitString /\ [][NextString]_vars

(***************************************************************************)
(* Properties of isInAString.                                              *)
(***************************************************************************)
\* The state of the machine {Normal, InSingleQuote, InDoubleQuote} after
\* the first n characters of the line.  A quote right behind a backslash
\* is escaped and changes nothing; any other quote opens its state from
\* Normal, closes the state of its own kind and is literal in the state
\* of the other kind.
RECURSIVE QuoteState(_, _)
QuoteState(line, n) ==
    IF n = 0 THEN "Normal"
    ELSE LET before == QuoteState(line, n - 1)
             c == line[n]
             escaped == n >= 2 /\ line[n - 1] = BS
             own == IF c = SQ THEN "InSingleQuote" ELSE "InDoubleQuote"
         IN  IF c \notin {SQ, DQ} \/ escaped THEN before
             ELSE IF before = "Normal" THEN own
             ELSE IF before = own THEN "Normal"
             ELSE before

\* C18: isInAString is true exactly when the machine, run over the
\* characters below min(range.end.character, line.length), ends in a
\* state other than Normal.
C18_IsInAStringIsTheQuoteMachine ==
    (provider.op = "done" /\ provider.fn = "isInAString") =>
        ( provider.result
          <=> QuoteState(provider.line,
                         Min(provider.end, Len(provider.line))) # "Normal" )

\* C18 witness: a double-quoted string that holds a single quote and an
\* escaped double quote and is still open at the end of the range.
C18_Witness ==
    /\ provider.op = "done"
    /\ provider.fn = "isInAString"
    /\ provider.line = <<DQ, SQ, BS, DQ, "x">>
    /\ provider.end = 5
    /\ provider.result

\* The number of consecutive backslashes that end right before the n-th
\* character of the line.
RECURSIVE BackslashRun(_, _)
BackslashRun(line, n) ==
    IF n >= 2 /\ line[n - 1] = BS THEN 1 + BackslashRun(line, n - 1) ELSE 0

\* The state of the quote machine in which a backslash that is itself
\* escaped escapes nothing: a quote is escaped when the run of backslashes
\* before it is odd.
RECURSIVE ParityQuoteState(_, _)
ParityQuoteState(line, n) ==
    IF n = 0 THEN "Normal"
    ELSE LET before == ParityQuoteState(line, n - 1)
             c == line[n]
             escaped == BackslashRun(line, n) % 2 = 1
             own == IF c = SQ THEN "InSingleQuote" ELSE "InDoubleQuote"
         IN  IF c \notin {SQ, DQ} \/ escaped THEN before
             ELSE IF before = "Normal" THEN own
             ELSE IF before = own THEN "Normal"
             ELSE before

\* C24: in isInAString a backslash escapes the one character behind it and
\* an escaped backslash escapes nothing: a quote behind an even number of
\* consecutive backslashes opens or closes the string, a quote behind an
\* odd number does not.
C24_EscapedBackslashEscapesNothing ==
    (provider.op = "done" /\ provider.fn = "isInAString") =>
        ( provider.result
          <=> ParityQuoteState(provider.line,
                               Min(provider.end, Len(provider.line)))
                 # "Normal" )


(***************************************************************************)
(* spDefinitionProvider: getLastFunc and getLastEnumStructNameOrMethodMap. *)
(*                                                                         *)
(* A position is a number (positions are totally ordered), a range the     *)
(* record of its start and its end, an item the record of its kind, its    *)
(* filePath and its fullRange.                                             *)
(***************************************************************************)
MaxScopeItems == 2
MaxPosition == 4

ScopeKinds == {"Function", "Method", "Class", "Struct"}
ScopePaths == {"doc", "other"}
ScopeRanges ==
    { [start |-> 0, end |-> 4], [start |-> 1, end |-> 3],
      [start |-> 2, end |-> 2] }
ScopeItems ==
    [kind : ScopeKinds, filePath : ScopePaths, fullRange : ScopeRanges]

\* Range.contains(position).
Contains(range, position) ==
    range.start <= position /\ position <= range.end

\* Array.prototype.find: the first element with the property, or
\* undefined.
RECURSIVE FindFirst(_, _, _, _, _)
FindFirst(items, k, kinds, filePath, position) ==
    IF k > Len(items) THEN "undefined"
    ELSE IF /\ items[k].kind \in kinds
            /\ items[k].filePath = filePath
            /\ Contains(items[k].fullRange, position)
    THEN items[k]
    ELSE FindFirst(items, k + 1, kinds, filePath, position)

\* getLastFunc(position, document, allItems), lines 18-31.
getLastFunc(position, fsPath, items) ==
    FindFirst(items, 1, {"Function", "Method"}, fsPath, position)

\* getLastEnumStructNameOrMethodMap(position, filePath, allItems), lines
\* 116-128.
getLastEnumStructNameOrMethodMap(position, filePath, items) ==
    FindFirst(items, 1, {"Struct", "Class"}, filePath, position)

InitScope ==
    /\ DefineIdle
    /\ RepoIdle
    /\ ItemsIdle
    /\ SigIdle
    /\ importer = NoImporter
    /\ \E n \in 0..MaxScopeItems :
       \E items \in [1..n -> ScopeItems], position \in 0..MaxPosition :
          provider = [op |-> "ready", fn |-> "scope", items |-> items,
                      position |-> position]

\* A provider asks for the function around the position.
GetLastFunc ==
    /\ provider.op = "ready"
    /\ provider.fn = "scope"
    /\ provider' = [op |-> "done", fn |-> "getLastFunc",
                    items |-> provider.items, position |-> provider.position,
                    result |-> getLastFunc(provider.position, "doc",
                                           provider.items)]
    /\ UNCHANGED <<defineVars, repoVars, itemVars, sig, importer>>

\* A provider asks for the enum struct or methodmap around the position.
GetLastEnumStructNameOrMethodMap ==
    /\ provider.op = "ready"
    /\ provider.fn = "scope"
    /\ provider' = [op |-> "done", fn |-> "getLastEnumStructNameOrMethodMap",
                    items |-> provider.items, position |-> provider.position,
                    result |-> getLastEnumStructNameOrMethodMap(
                                   provider.position, "doc", provider.items)]
    /\ UNCHANGED <<defineVars, repoVars, itemVars, sig, importer>>

NextScope ==
    \/ GetLastFunc
    \/ GetLastEnumStructNameOrMethodMap

SpecScope == InitScope /\ [][NextScope]_vars

\* The items of the document of the given kinds whose fullRange contains
\* the position, and whether range a lies in range b without being it.
ScopeCandidates(kinds) ==
    { it \in Range(provider.items) :
        /\ it.kind \in kinds
        /\ it.filePath = "doc"
        /\ Contains(it.fullRange, provider.position) }
StrictlyInside(a, b) ==
    b.start <= a.start /\ a.end <= b.end /\ a # b

\* The result is the innermost candidate: undefined when there is none,
\* else a candidate with no other candidate inside its range.
IsInnermost(result, candidates) ==
    IF candidates = {} THEN result = "undefined"
    ELSE /\ result \in candidates
         /\ \A c \in candidates : ~StrictlyInside(c.fullRange, result.fullRange)

\* C19: getLastFunc returns the innermost Function or Method item of the
\* document whose fullRange contains the position, undefined when there is
\* none, and getLastEnumStructNameOrMethodMap the innermost enum struct or
\* methodmap item, in whatever order allItems holds the items.
C19_EnclosingScopeIsInnermost ==
    /\ (provider.op = "done" /\ provider.fn = "getLastFunc")
       => IsInnermost(provider.result, ScopeCandidates({"Function", "Method"}))
    /\ (provider.op = "done" /\ provider.fn = "getLastEnumStructNameOrMethodMap")
       => IsInnermost(provider.result, ScopeCandidates({"Struct", "Class"}))

=============================================================================
